---- MODULE Spec2Model ----
(***************************************************************************)
(* A model of src/app2.py: one WebSocket session of the conversational     *)
(* backend.  The server task walks through websocket_endpoint,             *)
(* stream_llm_response and handle_session_end; the client, the completion  *)
(* service (Groq) and the datastore (Supabase) are the environment.        *)
(***************************************************************************)
EXTENDS Integers, Sequences, FiniteSets, TLC

VARIABLES
    pc,              \* position of the server task
    connOpen,        \* the client has not closed the connection
    sessions,        \* rows of the "sessions" table (sequence of records)
    eventsTable,     \* rows of the "events" table, in insertion order
    attempted,       \* every event add_event built, stored or not
    event_sequence,  \* ConversationState.event_sequence
    messagesBound,   \* the local `messages` of websocket_endpoint is assigned
    messages,        \* the in-memory history
    iteration,       \* local `iteration` of stream_llm_response
    response,        \* local `response` of stream_llm_response
    has_tool_use,    \* local `has_tool_use` of stream_llm_response
    tcIndex,         \* position of the first tool-call loop
    frames,          \* frames sent to the client, in order
    lastRequest,     \* `groq_messages` of the most recent completion call
    calls,           \* completion calls of stream_llm_response so far
    writeFailures,   \* failed inserts into "events" so far
    finalizeCount,   \* invocations of handle_session_end
    toolRuns,        \* tool executors run, in order: <<call id, tool name>>
    endStage,        \* how far handle_session_end got
    turn,            \* bookkeeping of the current invocation of stream_llm_response
    thread,          \* the task the thread of the event loop is running, or NoTask
    task             \* per connection: position of its endpoint task, its client

\* The state of the session whose data is followed
sessionVars == <<pc, connOpen, sessions, eventsTable, attempted, event_sequence,
                 messagesBound, messages, iteration, response, has_tool_use, tcIndex,
                 frames, lastRequest, calls, writeFailures,
                 endStage, finalizeCount, toolRuns, turn>>

\* The event loop of the process and the endpoint tasks it runs
loopVars == <<thread, task>>

vars == <<sessionVars, loopVars>>

---------------------------------------------------------------------------
(* Bounds of the model *)

\* completion calls that stream_llm_response makes on one connection
MaxCalls == 3
\* inserts into the events table that fail, one after the other, on one
\* connection
MaxWriteFailures == 1

(* Program constants *)
max_iterations == 3

---------------------------------------------------------------------------
(* Values *)

\* Python's None
None == <<"None">>

\* A str is a sequence of tokens: a space " ", the prefix "I'll", a word "w".

IsStr(v) == v # None

RECURSIVE LStrip(_)
LStrip(s) == IF s # <<>> /\ Head(s) = " " THEN LStrip(Tail(s)) ELSE s

RECURSIVE RStrip(_)
RStrip(s) ==
    IF s # <<>> /\ s[Len(s)] = " " THEN RStrip(SubSeq(s, 1, Len(s) - 1)) ELSE s

\* str.strip()
Strip(s) == RStrip(LStrip(s))

\* str.startswith("I'll")
StartsWithIll(s) == s # <<>> /\ Head(s) = "I'll"

\* Python truthiness of an Optional[str]
Truthy(v) == v # None /\ v # <<>>

\* dict.get(key, default)
Get(d, k, default) == IF k \in DOMAIN d THEN d[k] ELSE default

(* JSON.  A parsed value is a dict or a list, given by its items; a JSON    *)
(* text is the value it denotes together with whether it is written the    *)
(* way json.dumps writes it; a text that denotes no value is malformed.    *)
Dict(items) == [type |-> "dict", items |-> items]
List(items) == [type |-> "list", items |-> items]
NoValue == [type |-> "invalid", items |-> {}]

JsonText(v, canonical) == [val |-> v, canonical |-> canonical]
JSONDecodeError == [type |-> "JSONDecodeError", items |-> {}]

\* json.loads: the value, or JSONDecodeError
JsonLoads(t) == IF t.val.type = "invalid" THEN JSONDecodeError ELSE t.val

\* json.dumps
JsonDumps(v) == JsonText(v, TRUE)

HasKey(v, k) == \E it \in v.items : it[1] = k
Lookup(v, k) == (CHOOSE it \in v.items : it[1] = k)[2]

---------------------------------------------------------------------------
(* The environment: what the client and the provider may send *)

SessionId == "s1"

Hello == <<"w">>

\* Inbound frames, as decoded by receive_json
InFrames ==
    { [type |-> "message", content |-> <<" ", "w", " ">>],  \* a valid message
      [type |-> "message", content |-> <<" ">>],            \* blank content
      [type |-> "message"],                                 \* content missing
      [type |-> "ping", content |-> Hello],                 \* another type
      [content |-> Hello],                                  \* type missing
      [type |-> "message", content |-> None] }              \* content null

\* Texts of tool-call arguments, as the provider writes them
ArgsQuery == JsonText(Dict({<<"query", "X">>}), FALSE)
ArgsUser == JsonText(Dict({<<"user_id", "user_alice">>}), FALSE)
ArgsList == JsonText(List({}), TRUE)
ArgsInvalid == JsonText(NoValue, FALSE)

ToolCall(id, name, arguments) ==
    [id |-> id, function |-> [name |-> name, arguments |-> arguments]]

\* response.choices[0].message of a completion
Responses ==
    { [content |-> <<" ", "w">>, tool_calls |-> <<>>],
      [content |-> <<"I'll", "w">>, tool_calls |-> <<>>],
      [content |-> None, tool_calls |-> <<>>],
      [content |-> <<"w">>,
       tool_calls |-> <<ToolCall("call_1", "fetch_user_data", ArgsInvalid),
                        ToolCall("call_2", "delete_universe", ArgsQuery)>>],
      [content |-> <<" ">>,
       tool_calls |-> <<ToolCall("call_1", "search_knowledge_base", ArgsList),
                        ToolCall("call_2", "fetch_user_data", ArgsUser)>>] }

\* The frames the client may send now: a message that starts a turn only
\* while a completion call is within the bound
ClientFrames ==
    {data \in InFrames :
        calls < MaxCalls
        \/ ~("type" \in DOMAIN data /\ data.type = "message")
        \/ ~IsStr(Get(data, "content", <<>>))
        \/ Strip(Get(data, "content", <<>>)) = <<>>}

NoResponse == [content |-> None, tool_calls |-> <<>>]

---------------------------------------------------------------------------
(* Tools *)

UserName(user_id) == IF user_id = "user_alice" THEN "User_user_ali" ELSE "User_"

\* fetch_user_data
fetch_user_data(user_id) ==
    Dict({<<"user_id", user_id>>, <<"name", UserName(user_id)>>,
          <<"tier", "premium">>, <<"created_at", "2024-01-15">>})

\* search_knowledge_base
search_knowledge_base(query) == Dict({<<"results", query>>})

\* The outcome of a call: the value returned or the exception raised, and
\* whether a tool executor ran.
Returned(v, ran) == [raised |-> FALSE, value |-> v, error |-> "", ran |-> ran]
Raised(e) == [raised |-> TRUE, value |-> "", error |-> e, ran |-> FALSE]

\* tool_input[key]: the value, or the exception Python raises
Subscript(tool_input, key) ==
    IF tool_input.type # "dict" THEN Raised("TypeError")
    ELSE IF ~HasKey(tool_input, key) THEN Raised("KeyError")
    ELSE Returned(Lookup(tool_input, key), FALSE)

UnknownTool == Dict({<<"error", "Unknown tool">>})

\* The names of TOOLS
ToolNames == {"fetch_user_data", "search_knowledge_base"}

\* A lookup by name that raises for a name that is not registered
process_tool_call_lookup(tool_name, tool_input) ==
    IF tool_name = "fetch_user_data" THEN
        LET arg == Subscript(tool_input, "user_id") IN
        IF arg.raised THEN arg
        ELSE Returned(JsonDumps(fetch_user_data(arg.value)), TRUE)
    ELSE IF tool_name = "search_knowledge_base" THEN
        LET arg == Subscript(tool_input, "query") IN
        IF arg.raised THEN arg
        ELSE Returned(JsonDumps(search_knowledge_base(arg.value)), TRUE)
    ELSE Raised("KeyError")

\* process_tool_call: the JSON text returned, or the exception raised
process_tool_call(tool_name, tool_input) ==
    IF tool_name = "fetch_user_data" THEN
        LET arg == Subscript(tool_input, "user_id") IN
        IF arg.raised THEN arg
        ELSE Returned(JsonDumps(fetch_user_data(arg.value)), TRUE)
    ELSE IF tool_name = "search_knowledge_base" THEN
        LET arg == Subscript(tool_input, "query") IN
        IF arg.raised THEN arg
        ELSE Returned(JsonDumps(search_knowledge_base(arg.value)), TRUE)
    ELSE Returned(JsonDumps(UnknownTool), FALSE)

---------------------------------------------------------------------------
(* The event log *)

\* The fields add_event takes; absent ones are None
Fields(event_type, role, content, tool_call_id, tool_name, tool_result) ==
    [event_type |-> event_type, role |-> role, content |-> content,
     tool_call_id |-> tool_call_id, tool_name |-> tool_name,
     tool_result |-> tool_result]

\* What add_event reads and writes: the counter, the table and the bookkeeping
Log == [seq |-> event_sequence, table |-> eventsTable, attempted |-> attempted,
        failures |-> writeFailures]

\* event_data of add_event
EventData(f, seq) ==
    [session_id |-> SessionId, event_type |-> f.event_type, role |-> f.role,
     content |-> f.content, tool_call_id |-> f.tool_call_id,
     tool_name |-> f.tool_name, tool_result |-> f.tool_result,
     sequence_num |-> seq]

\* ConversationState.add_event; insertOk: the insert did not raise
add_event(log, f, insertOk) ==
    LET seq == log.seq + 1
        event_data == EventData(f, seq)
    IN  [seq |-> seq,
         table |-> IF insertOk THEN Append(log.table, event_data) ELSE log.table,
         attempted |-> Append(log.attempted, event_data),
         failures |-> IF insertOk THEN log.failures ELSE log.failures + 1]

\* The insert made last by add_event raised
LastInsertFailed(log) ==
    /\ log.attempted # <<>>
    /\ \/ log.table = <<>>
       \/ log.table[Len(log.table)].sequence_num
             # log.attempted[Len(log.attempted)].sequence_num

\* The outcomes the datastore may give the next insert: it raises during
\* one outage, which lasts at most MaxWriteFailures inserts in a row
InsertOutcomes(log) ==
    IF log.failures = 0 \/ (log.failures < MaxWriteFailures /\ LastInsertFailed(log))
    THEN BOOLEAN ELSE {TRUE}

SetLog(log) ==
    /\ event_sequence' = log.seq
    /\ eventsTable' = log.table
    /\ attempted' = log.attempted
    /\ writeFailures' = log.failures

LogUnchanged == UNCHANGED <<event_sequence, eventsTable, attempted, writeFailures>>

---------------------------------------------------------------------------
(* Bookkeeping of one invocation of stream_llm_response *)

NoTurn == [n |-> 0, status |-> "none", frameStart |-> 0, eventStart |-> 0,
           outcomes |-> <<>>, seqAtCall |-> 0, framesAtCall |-> 0,
           handled |-> <<>>]

NewTurn(seq) == [n |-> turn.n + 1, status |-> "running", frameStart |-> Len(frames),
                 eventStart |-> seq, outcomes |-> <<>>, seqAtCall |-> seq,
                 framesAtCall |-> Len(frames), handled |-> <<>>]

Outcome(failed, r) ==
    [failed |-> failed, content |-> r.content, tool_calls |-> r.tool_calls]

\* One pass of the tool-call loop: the call, the iteration, the counter and
\* the number of frames before it, and whether its frame went out
Handled(tool_call, iter, seq, nframes, sent) ==
    [tool_call |-> tool_call, iteration |-> iter, seq |-> seq,
     nframes |-> nframes, sent |-> sent]

\* websocket.send_json: the frame goes out, or the send raises because the
\* client has gone and the exception leaves the endpoint's try block
CanSend == connOpen

---------------------------------------------------------------------------
(* The endpoint tasks of the process: uvicorn.run gives one event loop, which
   runs one task per accepted connection on one thread *)

Connections == {"c1", "c2"}

NoTask == "none"

\* A task whose connection has just been accepted (line 284): where it is
\* in the code, whether a synchronous call of it is with the external
\* service, and its client: a frame on the way, the connection closed
NewTask == [pc |-> "accepted", waiting |-> FALSE, pending |-> FALSE, gone |-> FALSE]

---------------------------------------------------------------------------
(* Initial state: the connection has been accepted (line 284) *)

Init ==
    /\ pc = "connect"
    /\ connOpen = TRUE
    /\ sessions = <<>>
    /\ eventsTable = <<>>
    /\ attempted = <<>>
    /\ event_sequence = 0
    /\ messagesBound = FALSE
    /\ messages = <<>>
    /\ iteration = 0
    /\ response = NoResponse
    /\ has_tool_use = FALSE
    /\ tcIndex = 0
    /\ frames = <<>>
    /\ lastRequest = <<>>
    /\ calls = 0
    /\ writeFailures = 0
    /\ finalizeCount = 0
    /\ toolRuns = <<>>
    /\ endStage = "none"
    /\ turn = NoTurn
    /\ thread = NoTask
    /\ task = [t \in Connections |-> NewTask]

---------------------------------------------------------------------------
(* websocket_endpoint *)

\* The client closes the connection; the server learns of it at its next
\* receive or send.
ClientDisconnect ==
    /\ connOpen
    /\ pc # "closed"
    /\ connOpen' = FALSE
    /\ UNCHANGED <<pc, sessions, eventsTable, attempted, event_sequence,
                   messagesBound, messages, iteration, response, has_tool_use,
                   tcIndex, frames, lastRequest, calls, writeFailures,
                   endStage, finalizeCount, toolRuns, turn>>
    /\ UNCHANGED loopVars

\* Lines 286-297: the session row, the session_start event, messages = []
CreateSession ==
    /\ pc = "connect"
    /\ \E rowOk \in BOOLEAN :
         IF rowOk
         THEN \E insertOk \in InsertOutcomes(Log) :
                /\ sessions' = Append(sessions,
                      [session_id |-> SessionId, user_id |-> "user_1",
                       status |-> "active", summary |-> None])
                /\ SetLog(add_event(Log,
                      Fields("session_start", None, <<SessionId>>, None, None, None),
                      insertOk))
                /\ messages' = <<>>
                /\ messagesBound' = TRUE
                /\ pc' = "recv"
         ELSE \* the insert raises before line 297 has assigned messages
              /\ pc' = "except"
              /\ LogUnchanged
              /\ UNCHANGED <<sessions, messages, messagesBound>>
    /\ UNCHANGED <<connOpen, iteration, response, has_tool_use, tcIndex, frames,
                   lastRequest, calls, endStage, finalizeCount, toolRuns, turn>>
    /\ UNCHANGED loopVars

\* Lines 300-310 for one inbound frame `data`
HandleFrame(data) ==
    /\ IF "type" \in DOMAIN data /\ data.type = "message"
       THEN LET content == Get(data, "content", <<>>) IN
            IF ~IsStr(content)
            THEN \* .strip() of a non-string raises AttributeError
                 /\ pc' = "except"
                 /\ LogUnchanged
                 /\ UNCHANGED <<messages, iteration, turn>>
            ELSE LET user_input == Strip(content) IN
                 IF user_input = <<>>
                 THEN /\ pc' = "recv"
                      /\ LogUnchanged
                      /\ UNCHANGED <<messages, iteration, turn>>
                 ELSE \E insertOk \in InsertOutcomes(Log) :
                        LET log == add_event(Log,
                                     Fields("user_message", "user", user_input,
                                            None, None, None), insertOk)
                        IN  /\ SetLog(log)
                            /\ messages' = Append(messages,
                                  [role |-> "user", content |-> user_input])
                            /\ iteration' = 0
                            /\ turn' = NewTurn(log.seq)
                            /\ pc' = "loop"
       ELSE /\ pc' = "recv"
            /\ LogUnchanged
            /\ UNCHANGED <<messages, iteration, turn>>

\* Line 300: receive_json returns a frame, or raises WebSocketDisconnect
Receive ==
    /\ pc = "recv"
    /\ IF connOpen
       THEN \E data \in ClientFrames : HandleFrame(data)
       ELSE /\ pc' = "except"
            /\ LogUnchanged
            /\ UNCHANGED <<messages, iteration, turn>>
    /\ UNCHANGED <<connOpen, sessions, messagesBound, response, has_tool_use,
                   tcIndex, frames, lastRequest, calls, endStage, finalizeCount, toolRuns>>
    /\ UNCHANGED loopVars

---------------------------------------------------------------------------
(* stream_llm_response *)

SystemPrompt == [role |-> "user", content |-> <<"system_prompt">>]

\* A request that carries the latest turn only
groq_messages_latest(iter, msgs) ==
    IF iter = 1 THEN <<SystemPrompt, msgs[Len(msgs)]>> ELSE msgs

\* Lines 165-171: the request of this iteration
groq_messages(iter, msgs) == IF iter = 1 THEN <<SystemPrompt>> \o msgs ELSE msgs

\* The responses the provider may give to call number n of the connection,
\* made in iteration iter: it asks for tools only if the call that would
\* follow is within the bound
ProviderResponses(n, iter) ==
    {r \in Responses :
        (r.tool_calls # <<>> /\ iter < max_iterations) => n < MaxCalls}

\* The loop test off by one: a fourth iteration
LoopContinuesOnceMore(iter) == iter <= max_iterations

\* Line 162: the loop test
LoopContinues(iter) == iter < max_iterations

\* return in place of break: the turn ends without line 280
AfterErrorReturn == "recv"

\* continue in place of break: the loop goes on after the error frame
AfterErrorContinue == "loop"

\* Line 184: after the error frame, break leaves the loop for line 280
AfterError == "done"

\* Line 183: the error frame, its content the text of the exception
ErrorFrame == [type |-> "error", content |-> <<"provider error">>]

\* Lines 162-184: the loop test, the request, the completion call
CallCompletion ==
    /\ pc = "loop"
    /\ LoopContinues(iteration)
    /\ iteration' = iteration + 1
    /\ lastRequest' = groq_messages(iteration + 1, messages)
    /\ calls' = calls + 1
    /\ \/ \* the call raises: an error frame, then break
          /\ turn' = [turn EXCEPT !.outcomes = Append(@, Outcome(TRUE, NoResponse)),
                                  !.seqAtCall = event_sequence,
                                  !.framesAtCall = Len(frames),
                                  !.status = IF CanSend THEN @ ELSE "aborted"]
          /\ IF CanSend
             THEN /\ frames' = Append(frames, ErrorFrame)
                  /\ pc' = AfterError
             ELSE /\ frames' = frames
                  /\ pc' = "except"
          /\ response' = response
       \/ \E r \in ProviderResponses(calls + 1, iteration + 1) :
            /\ response' = r
            /\ turn' = [turn EXCEPT !.outcomes = Append(@, Outcome(FALSE, r)),
                                    !.seqAtCall = event_sequence,
                                    !.framesAtCall = Len(frames)]
            /\ pc' = "text"
            /\ frames' = frames
    /\ LogUnchanged
    /\ UNCHANGED <<connOpen, sessions, messagesBound, messages, has_tool_use,
                   tcIndex, endStage, finalizeCount, toolRuns>>
    /\ UNCHANGED loopVars

\* Line 162 when the budget is used up: the loop ends
LoopExit ==
    /\ pc = "loop"
    /\ ~LoopContinues(iteration)
    /\ pc' = "done"
    /\ UNCHANGED <<connOpen, sessions, eventsTable, attempted, event_sequence,
                   messagesBound, messages, iteration, response, has_tool_use,
                   tcIndex, frames, lastRequest, calls, writeFailures,
                   endStage, finalizeCount, toolRuns, turn>>
    /\ UNCHANGED loopVars

\* Lines 189-190: response_text
ResponseText(content) == IF Truthy(content) THEN Strip(content) ELSE <<>>

\* Line 191: the text is recorded and streamed
TextIsStreamed(response_text) ==
    response_text # <<>> /\ ~StartsWithIll(response_text)

\* Lines 186-207 and, for a response without tool calls, lines 277-278
HandleText ==
    /\ pc = "text"
    /\ LET response_text == ResponseText(response.content)
           streamed == Truthy(response.content) /\ TextIsStreamed(response_text)
           sent == ~streamed \/ CanSend
       IN
       /\ IF streamed
          THEN \E insertOk \in InsertOutcomes(Log) :
                 SetLog(add_event(Log,
                    Fields("assistant_message", "assistant", response_text,
                           None, None, None), insertOk))
          ELSE LogUnchanged
       /\ frames' = IF streamed /\ CanSend
                    THEN Append(frames, [type |-> "text", content |-> response_text,
                                         chunk |-> TRUE])
                    ELSE frames
       /\ IF sent
          THEN /\ messages' = IF response_text # <<>>
                              THEN Append(messages, [role |-> "assistant",
                                                     content |-> response_text])
                              ELSE messages
               /\ has_tool_use' = (response.tool_calls # <<>>)
               /\ tcIndex' = 1
               /\ pc' = IF response.tool_calls # <<>> THEN "tool" ELSE "done"
               /\ turn' = turn
          ELSE /\ pc' = "except"
               /\ turn' = [turn EXCEPT !.status = "aborted"]
               /\ UNCHANGED <<messages, has_tool_use, tcIndex>>
    /\ UNCHANGED <<connOpen, sessions, messagesBound, iteration, response,
                   lastRequest, calls, endStage, finalizeCount, toolRuns>>
    /\ UNCHANGED loopVars

\* The arguments parsed without the fallback of lines 215-216
ToolInputNoFallback(arguments) == JsonLoads(arguments)

\* Lines 213-217: tool_input
ToolInput(arguments) ==
    LET parsed == JsonLoads(arguments) IN
    IF parsed = JSONDecodeError THEN Dict({}) ELSE parsed

\* The exception of the executor not turned into an error payload
ToolResultNoPayload(outcome) ==
    IF outcome.raised THEN JsonDumps(Dict({})) ELSE outcome.value

\* Lines 226-230: tool_result
ToolResult(outcome) ==
    IF outcome.raised THEN JsonDumps(Dict({<<"error", outcome.error>>}))
    ELSE outcome.value

\* The tool calls taken last first
CurrentToolCallReversed(tool_calls_list, index) ==
    tool_calls_list[Len(tool_calls_list) + 1 - index]

\* Line 209: `for tool_call in response.tool_calls`, at its index-th pass
CurrentToolCall(tool_calls_list, index) == tool_calls_list[index]

\* Lines 209-245 for the tool call at tcIndex
ToolCallStep ==
    /\ pc = "tool"
    /\ LET tool_call == CurrentToolCall(response.tool_calls, tcIndex)
           tool_use_id == tool_call.id
           tool_name == tool_call.function.name
           tool_input == ToolInput(tool_call.function.arguments)
           outcome == process_tool_call(tool_name, tool_input)
           tool_result == ToolResult(outcome)
       IN
       /\ \E ok1 \in InsertOutcomes(Log) :
            LET log1 == add_event(Log,
                          Fields("tool_call", None, JsonDumps(tool_input),
                                 tool_use_id, tool_name, None), ok1)
            IN \E ok2 \in InsertOutcomes(log1) :
                 SetLog(add_event(log1,
                          Fields("tool_result", None, None, tool_use_id,
                                 tool_name, tool_result), ok2))
       /\ toolRuns' = IF outcome.ran
                      THEN Append(toolRuns, <<tool_use_id, tool_name>>)
                      ELSE toolRuns
       /\ IF CanSend
          THEN /\ frames' = Append(frames,
                     [type |-> "tool_use", tool |-> tool_name,
                      result |-> JsonLoads(tool_result)])
               /\ IF tcIndex < Len(response.tool_calls)
                  THEN tcIndex' = tcIndex + 1 /\ pc' = "tool"
                  ELSE tcIndex' = tcIndex /\ pc' = "append"
               /\ turn' = [turn EXCEPT !.handled = Append(@,
                     Handled(tool_call, iteration, event_sequence, Len(frames), TRUE))]
          ELSE /\ frames' = frames
               /\ pc' = "except"
               /\ tcIndex' = tcIndex
               /\ turn' = [turn EXCEPT !.status = "aborted", !.handled = Append(@,
                     Handled(tool_call, iteration, event_sequence, Len(frames), FALSE))]
    /\ UNCHANGED <<connOpen, sessions, messagesBound, messages, iteration,
                   response, has_tool_use, lastRequest, calls, endStage, finalizeCount>>
    /\ UNCHANGED loopVars

\* Lines 249-258: the assistant turn carrying the tool calls
AssistantToolCalls(tool_calls_list) ==
    [role |-> "assistant",
     tool_calls |-> [i \in 1..Len(tool_calls_list) |->
        [id |-> tool_calls_list[i].id, type |-> "function",
         function |-> [name |-> tool_calls_list[i].function.name,
                       arguments |-> tool_calls_list[i].function.arguments]]]]

\* Lines 263-274 for one tool call: what process_tool_call gives for the
\* arguments parsed again, an exception of either being caught
SecondRun(tool_call) ==
    LET parsed == JsonLoads(tool_call.function.arguments) IN
    IF parsed = JSONDecodeError THEN Raised("JSONDecodeError")
    ELSE process_tool_call(tool_call.function.name, parsed)

\* Lines 261-274: tool_results
RECURSIVE ToolResults(_)
ToolResults(tool_calls_list) ==
    IF tool_calls_list = <<>> THEN <<>>
    ELSE LET tool_call == Head(tool_calls_list)
             outcome == SecondRun(tool_call)
         IN  (IF outcome.raised THEN <<>>
              ELSE <<[role |-> "tool", tool_call_id |-> tool_call.id,
                      content |-> outcome.value]>>)
             \o ToolResults(Tail(tool_calls_list))

\* The executors run by lines 263-267
RECURSIVE SecondRuns(_)
SecondRuns(tool_calls_list) ==
    IF tool_calls_list = <<>> THEN <<>>
    ELSE LET tool_call == Head(tool_calls_list) IN
         (IF SecondRun(tool_call).ran
          THEN <<(<<tool_call.id, tool_call.function.name>>)>> ELSE <<>>)
         \o SecondRuns(Tail(tool_calls_list))

\* Lines 247-278: the history is extended and the loop goes on
AppendToolTurns ==
    /\ pc = "append"
    /\ messages' = Append(messages, AssistantToolCalls(response.tool_calls))
                   \o ToolResults(response.tool_calls)
    /\ toolRuns' = toolRuns \o SecondRuns(response.tool_calls)
    /\ pc' = IF has_tool_use THEN "loop" ELSE "done"
    /\ LogUnchanged
    /\ UNCHANGED <<connOpen, sessions, messagesBound, iteration, response,
                   has_tool_use, tcIndex, frames, lastRequest, calls,
                   endStage, finalizeCount, turn>>
    /\ UNCHANGED loopVars

\* Line 280, and the return to the receive loop
SendDone ==
    /\ pc = "done"
    /\ IF CanSend
       THEN /\ frames' = Append(frames, [type |-> "done"])
            /\ turn' = [turn EXCEPT !.status = "returned"]
            /\ pc' = "recv"
       ELSE /\ frames' = frames
            /\ turn' = [turn EXCEPT !.status = "aborted"]
            /\ pc' = "except"
    /\ LogUnchanged
    /\ UNCHANGED <<connOpen, sessions, messagesBound, messages, iteration,
                   response, has_tool_use, tcIndex, lastRequest, calls,
                   endStage, finalizeCount, toolRuns>>
    /\ UNCHANGED loopVars

---------------------------------------------------------------------------
(* handle_session_end *)

\* .order("sequence_num"): insert a row into rows already in order
RECURSIVE InsertBySeq(_, _)
InsertBySeq(row, rows) ==
    IF rows = <<>> THEN <<row>>
    ELSE IF row.sequence_num < Head(rows).sequence_num THEN <<row>> \o rows
    ELSE <<Head(rows)>> \o InsertBySeq(row, Tail(rows))

RECURSIVE OrderBySeq(_)
OrderBySeq(rows) ==
    IF rows = <<>> THEN <<>> ELSE InsertBySeq(Head(rows), OrderBySeq(Tail(rows)))

\* Lines 322-324: the events of the session, in order of sequence_num
SelectEvents(table, session_id) ==
    OrderBySeq(SelectSeq(table, LAMBDA row : row.session_id = session_id))

\* Lines 325-334: the narrative
RECURSIVE Narrative(_)
Narrative(events) ==
    IF events = <<>> THEN <<>>
    ELSE LET event == Head(events)
             line == IF event.event_type = "user_message"
                        THEN <<(<<"User", event.content>>)>>
                     ELSE IF event.event_type = "assistant_message"
                        THEN <<(<<"Assistant", event.content>>)>>
                     ELSE IF event.event_type = "tool_call"
                        THEN <<(<<"Tool Call", event.tool_name, event.content>>)>>
                     ELSE <<>>
         IN  line \o Narrative(Tail(events))

SummaryFailed == <<"Summary generation failed">>

\* A summary that is empty when the provider fails
SummaryNoFallback(conversation_text, groqOk) ==
    IF groqOk THEN <<"summary of", conversation_text>> ELSE <<>>

\* Lines 336-356: the summary the provider gives, or the fallback
Summary(conversation_text, groqOk) ==
    IF groqOk THEN <<"summary of", conversation_text>> ELSE SummaryFailed

\* The update without its status field
UpdateSessionNoStatus(rows, session_id, summary) ==
    [i \in 1..Len(rows) |->
        IF rows[i].session_id = session_id
        THEN [rows[i] EXCEPT !.summary = summary]
        ELSE rows[i]]

\* Lines 360-367: the update of the session row
UpdateSession(rows, session_id, summary) ==
    [i \in 1..Len(rows) |->
        IF rows[i].session_id = session_id
        THEN [rows[i] EXCEPT !.summary = summary, !.status = "completed"]
        ELSE rows[i]]

\* Lines 319-373
handle_session_end ==
    /\ finalizeCount' = finalizeCount + 1
    /\ \/ \* the select of line 322 raises: the exception leaves the function
          /\ LogUnchanged
          /\ sessions' = sessions
          /\ endStage' = "select_raised"
       \/ \E groqOk \in BOOLEAN, insertOk \in InsertOutcomes(Log), updateOk \in BOOLEAN :
            LET events == SelectEvents(eventsTable, SessionId)
                summary == Summary(Narrative(events), groqOk)
            IN  /\ SetLog(add_event(Log,
                      Fields("session_end", None, summary, None, None, None),
                      insertOk))
                /\ sessions' = IF updateOk
                               THEN UpdateSession(sessions, SessionId, summary)
                               ELSE sessions
                /\ endStage' = IF updateOk THEN "updated" ELSE "update_raised"

\* The receive loop entered again after the except clause
AfterSessionEndReceive == "recv"

\* Lines 313-317: the except clause is the last statement of the endpoint
AfterSessionEnd == "closed"

\* Lines 313-317: either except clause calls handle_session_end(state, messages);
\* reading an unassigned `messages` raises UnboundLocalError instead
ExceptClause ==
    /\ pc = "except"
    /\ IF messagesBound
       THEN handle_session_end
       ELSE /\ LogUnchanged
            /\ UNCHANGED <<sessions, finalizeCount, endStage>>
    /\ pc' = AfterSessionEnd
    /\ connOpen' = FALSE
    /\ UNCHANGED <<messagesBound, messages, iteration, response, has_tool_use,
                   tcIndex, frames, lastRequest, calls, toolRuns, turn>>
    /\ UNCHANGED loopVars

---------------------------------------------------------------------------

Next ==
    \/ ClientDisconnect
    \/ CreateSession
    \/ Receive
    \/ CallCompletion
    \/ LoopExit
    \/ HandleText
    \/ ToolCallStep
    \/ AppendToolTurns
    \/ SendDone
    \/ ExceptClause

Spec == Init /\ [][Next]_vars

---------------------------------------------------------------------------
(* The event loop: which task runs while the others wait.  groq_client is
   the synchronous Groq client (line 28) and supabase the synchronous client
   of create_client (line 27): their calls return only when the service has
   answered, and a task gives up the thread only at an await that suspends. *)

\* The client of connection t sends a frame
ClientSends(t) ==
    /\ task[t].pc # "closed"
    /\ ~task[t].gone
    /\ ~task[t].pending
    /\ task' = [task EXCEPT ![t].pending = TRUE]
    /\ UNCHANGED <<thread, sessionVars>>

\* The client of connection t closes it
ClientCloses(t) ==
    /\ task[t].pc # "closed"
    /\ ~task[t].gone
    /\ task' = [task EXCEPT ![t].gone = TRUE]
    /\ UNCHANGED <<thread, sessionVars>>

\* Lines 285-289: the loop starts the endpoint task of an accepted connection
Run(t) ==
    /\ thread = NoTask
    /\ task[t].pc = "accepted"
    /\ thread' = t
    /\ task' = [task EXCEPT ![t].pc = "sessions_insert"]
    /\ UNCHANGED sessionVars

\* The places of a synchronous call to the datastore or to the provider:
\* line 295; line 88 reached from lines 296, 305, 218, 231 and 358;
\* line 174; line 322; line 337; line 367
CallSites == {"sessions_insert", "log_start", "log_user", "create",
              "log_tool_call", "log_tool_result", "select", "summary",
              "log_end", "update"}

\* Where the task goes when the call returns (ok) or raises
AfterCall(site, ok) ==
    IF site = "sessions_insert" THEN (IF ok THEN {"log_start"} ELSE {"closed"})
    ELSE IF site = "log_start" THEN {"receive"}
    ELSE IF site = "log_user" THEN {"create"}
    ELSE IF site = "create" THEN (IF ok THEN {"log_tool_call", "send"} ELSE {"send"})
    ELSE IF site = "log_tool_call" THEN {"tool"}
    ELSE IF site = "log_tool_result" THEN {"send_tool_use"}
    ELSE IF site = "select" THEN (IF ok THEN {"summary"} ELSE {"closed"})
    ELSE IF site = "summary" THEN {"log_end"}
    ELSE IF site = "log_end" THEN {"update"}
    ELSE {"closed"}

\* The positions at which the task is suspended or over: the thread is free
Released(position) == position \in {"receive", "closed"}

\* The running task makes a synchronous call: the request is with the service
Call(t) ==
    /\ thread = t
    /\ task[t].pc \in CallSites
    /\ ~task[t].waiting
    /\ task' = [task EXCEPT ![t].waiting = TRUE]
    /\ UNCHANGED <<thread, sessionVars>>

\* The service answers: the call returns or raises, and the task goes on
Return(t) ==
    /\ thread = t
    /\ task[t].waiting
    /\ \E ok \in BOOLEAN : \E position \in AfterCall(task[t].pc, ok) :
         /\ task' = [task EXCEPT ![t].waiting = FALSE, ![t].pc = position]
         /\ thread' = IF Released(position) THEN NoTask ELSE t
    /\ UNCHANGED sessionVars

\* Lines 92-103: the executor awaits asyncio.sleep, which suspends the task
ToolAwait(t) ==
    /\ thread = t
    /\ task[t].pc = "tool"
    /\ task' = [task EXCEPT ![t].pc = "tool_asleep"]
    /\ thread' = NoTask
    /\ UNCHANGED sessionVars

\* The sleep is over and the loop resumes the task
Resume(t) ==
    /\ thread = NoTask
    /\ task[t].pc = "tool_asleep"
    /\ task' = [task EXCEPT ![t].pc = "log_tool_result"]
    /\ thread' = t
    /\ UNCHANGED sessionVars

\* Lines 238-245 and 277: the tool_use frame; the tool-call loop or the
\* iteration loop goes on, or the turn ends with line 280
SendToolUse(t) ==
    /\ thread = t
    /\ task[t].pc = "send_tool_use"
    /\ \E position \in {"log_tool_call", "create", "send"} :
         task' = [task EXCEPT ![t].pc = IF task[t].gone THEN "select" ELSE position]
    /\ UNCHANGED <<thread, sessionVars>>

\* Lines 183, 193-197 and 280: the last frames of the turn, then the task
\* awaits receive_json (line 300)
SendFrames(t) ==
    /\ thread = t
    /\ task[t].pc = "send"
    /\ IF task[t].gone
       THEN task' = [task EXCEPT ![t].pc = "select"] /\ thread' = thread
       ELSE task' = [task EXCEPT ![t].pc = "receive"] /\ thread' = NoTask
    /\ UNCHANGED sessionVars

\* Line 300: a frame has come, or the connection is closed; the loop
\* resumes the task, which goes to line 305 or to handle_session_end
ReceiveJson(t) ==
    /\ thread = NoTask
    /\ task[t].pc = "receive"
    /\ task[t].pending \/ task[t].gone
    /\ thread' = t
    /\ task' = IF task[t].pending
               THEN [task EXCEPT ![t].pc = "log_user", ![t].pending = FALSE]
               ELSE [task EXCEPT ![t].pc = "select"]
    /\ UNCHANGED sessionVars

LoopNext ==
    \E t \in Connections :
        \/ ClientSends(t)
        \/ ClientCloses(t)
        \/ Run(t)
        \/ Call(t)
        \/ Return(t)
        \/ ToolAwait(t)
        \/ Resume(t)
        \/ SendToolUse(t)
        \/ SendFrames(t)
        \/ ReceiveJson(t)

LoopSpec == Init /\ [][LoopNext]_vars

---------------------------------------------------------------------------
(* Notions the properties share *)

\* The frames sent since the current turn began
TurnFrames == SubSeq(frames, turn.frameStart + 1, Len(frames))

\* The events built since the user_message event of the current turn
TurnEvents == SubSeq(attempted, turn.eventStart + 1, Len(attempted))

CountType(fs, type) == Cardinality({i \in 1..Len(fs) : fs[i].type = type})

CountEvents(es, event_type) ==
    Cardinality({i \in 1..Len(es) : es[i].event_type = event_type})

\* stream_llm_response was invoked and has returned to the receive loop
TurnReturned == turn.n > 0 /\ (pc = "recv" \/ turn.status = "returned")

\* The most recent completion call of the current turn raised
LastCallFailed ==
    turn.outcomes # <<>> /\ turn.outcomes[Len(turn.outcomes)].failed

---------------------------------------------------------------------------
(* C1 *)

\* C1: in every invocation of stream_llm_response, whatever the provider
\* gives in each iteration (text, tool calls, both, neither, a failure), no
\* frame follows a done frame and at most one done frame is sent; and when
\* the invocation returns, exactly one done frame has been sent and it is the
\* last frame of the turn.  (An invocation whose send raises because the
\* client has gone does not return: it sends no done frame.)
C1_OneDoneLast ==
    turn.n > 0 =>
        LET fs == TurnFrames IN
        /\ \A i \in 1..Len(fs) : fs[i].type = "done" => i = Len(fs)
        /\ TurnReturned => (fs # <<>> /\ fs[Len(fs)].type = "done"
                            /\ CountType(fs, "done") = 1)
        /\ ~TurnReturned => CountType(fs, "done") = 0

\* A turn that saw tool calls, then text, then a failure, has returned
C1_Witness ==
    /\ TurnReturned
    /\ Len(turn.outcomes) = 3
    /\ turn.outcomes[1].tool_calls # <<>>
    /\ turn.outcomes[2].tool_calls # <<>> /\ Truthy(turn.outcomes[2].content)
    /\ turn.outcomes[3].failed

---------------------------------------------------------------------------
(* C2 *)

\* C2: in every user turn the loop makes at most 3 completion calls, also
\* when the provider asks for tools in every iteration; after the third such
\* call the loop ends, and the turn that returns ends with the done frame.
C2_AtMostThreeCalls ==
    /\ Len(turn.outcomes) <= 3
    /\ iteration <= 3
    /\ (TurnReturned /\ Len(turn.outcomes) = 3)
          => (TurnFrames # <<>> /\ TurnFrames[Len(TurnFrames)].type = "done")

\* The provider asked for tools three times and the turn has returned
C2_Witness ==
    /\ TurnReturned
    /\ Len(turn.outcomes) = 3
    /\ \A i \in 1..3 : ~turn.outcomes[i].failed /\ turn.outcomes[i].tool_calls # <<>>
    /\ TurnFrames[Len(TurnFrames)].type = "done"

---------------------------------------------------------------------------
(* C3 *)

\* C3: the sequence_num values of the events stored in the event log of the
\* session are exactly 1..n, in the order of insertion.
C3_StoredGapless ==
    LET stored == SelectSeq(eventsTable, LAMBDA row : row.session_id = SessionId)
    IN  \A i \in 1..Len(stored) : stored[i].sequence_num = i

---------------------------------------------------------------------------
(* C4 *)

\* C4: when the endpoint of an accepted connection has ended, whether by a
\* disconnect or by any other exception (a failing insert of the session row
\* included), handle_session_end has run exactly once.
C4_FinalizedOnce == pc = "closed" => finalizeCount = 1

---------------------------------------------------------------------------
(* C5 *)

RowsOfSession == SelectSeq(sessions, LAMBDA row : row.session_id = SessionId)

---------------------------------------------------------------------------
(* C6 *)

\* C6: when the provider gives no tool calls and non-empty text in iteration
\* 1, the turn sends exactly one text frame and exactly one done frame and
\* records no tool_call or tool_result event.
C6_TextOnlyTurn ==
    (/\ TurnReturned
     /\ ~turn.outcomes[1].failed
     /\ turn.outcomes[1].tool_calls = <<>>
     /\ Truthy(turn.outcomes[1].content)
     /\ Strip(turn.outcomes[1].content) # <<>>)
    => /\ CountType(TurnFrames, "text") = 1
       /\ CountType(TurnFrames, "done") = 1
       /\ CountEvents(TurnEvents, "tool_call") = 0
       /\ CountEvents(TurnEvents, "tool_result") = 0

---------------------------------------------------------------------------
(* C7 *)

\* The frames sent since the most recent completion call
FramesSinceCall == SubSeq(frames, turn.framesAtCall + 1, Len(frames))

\* C7: when a completion call fails, it is the last call of its turn; the
\* engine sends one error frame and then done, and builds no event between
\* the failure and the end of the turn; the failure itself never takes the
\* turn out of the receive loop (only a client that has gone does).
C7_ProviderFailure ==
    /\ \A i \in 1..Len(turn.outcomes) :
          turn.outcomes[i].failed => i = Len(turn.outcomes)
    /\ LastCallFailed =>
          /\ pc # "closed" => event_sequence = turn.seqAtCall
          /\ turn.status = "running" => (pc = "done" /\ FramesSinceCall = <<ErrorFrame>>)
          /\ turn.status = "returned" =>
                FramesSinceCall = <<ErrorFrame, [type |-> "done"]>>
          /\ turn.status = "aborted" =>
                (~connOpen /\ FramesSinceCall \in {<<>>, <<ErrorFrame>>})
          /\ turn.status \in {"running", "returned", "aborted"}

\* After a turn that ended with a provider failure, a later message has
\* started a second turn and its completion call has been answered
C7_Witness ==
    /\ turn.n = 2
    /\ connOpen
    /\ turn.outcomes # <<>> /\ ~turn.outcomes[1].failed
    /\ turn.frameStart >= 2
    /\ frames[turn.frameStart - 1] = ErrorFrame
    /\ frames[turn.frameStart].type = "done"

---------------------------------------------------------------------------
(* C8 *)

\* The frames the claim says are ignored
ClaimedIgnored(data) ==
    \/ ~("type" \in DOMAIN data /\ data.type = "message")
    \/ "content" \notin DOMAIN data
    \/ ~IsStr(data.content)
    \/ Strip(data.content) = <<>>

\* C8: an inbound frame whose type is not message, or whose content is
\* missing, blank or not a usable string, is ignored: nothing is sent, no
\* event is built, the history is unchanged, no completion call is made and
\* the receive loop goes on.
C8_BadFramesIgnored ==
    [][\A data \in InFrames :
          (pc = "recv" /\ connOpen /\ ClaimedIgnored(data) /\ HandleFrame(data))
          => (/\ pc' = "recv"
              /\ frames' = frames
              /\ attempted' = attempted
              /\ messages' = messages
              /\ calls' = calls)]_vars

---------------------------------------------------------------------------
(* C9 *)

Malformed(tool_call) == JsonLoads(tool_call.function.arguments) = JSONDecodeError

\* C9: a tool call whose arguments cannot be parsed does not abort the turn:
\* the tool_call event is built with the empty argument set {} as content,
\* the tool_result event follows it, the tool_use frame is sent (unless the
\* client has gone), and the turn that returns ends with done.
C9_MalformedArguments ==
    \A k \in 1..Len(turn.handled) :
        LET h == turn.handled[k]
            tool_call == h.tool_call
        IN  Malformed(tool_call) =>
              /\ Len(attempted) >= h.seq + 2
              /\ attempted[h.seq + 1].event_type = "tool_call"
              /\ attempted[h.seq + 1].tool_call_id = tool_call.id
              /\ attempted[h.seq + 1].tool_name = tool_call.function.name
              /\ attempted[h.seq + 1].content = JsonDumps(Dict({}))
              /\ attempted[h.seq + 2].event_type = "tool_result"
              /\ attempted[h.seq + 2].tool_call_id = tool_call.id
              /\ h.sent => /\ frames[h.nframes + 1].type = "tool_use"
                           /\ frames[h.nframes + 1].tool = tool_call.function.name
              /\ ~h.sent => ~connOpen
              /\ turn.status = "aborted" => ~connOpen
              /\ TurnReturned => frames[Len(frames)].type = "done"

\* A turn with a malformed tool call has returned
C9_Witness ==
    /\ TurnReturned
    /\ \E k \in 1..Len(turn.handled) :
          Malformed(turn.handled[k].tool_call) /\ turn.handled[k].sent

---------------------------------------------------------------------------
(* C10 *)

\* C10: a tool call naming a tool that is not registered gets the result
\* {"error": "Unknown tool"} in its tool_result event and in its tool_use
\* frame; nothing is raised and the turn goes on: the history is extended
\* and the next iteration runs unless the budget is used up.
C10_UnknownTool ==
    \A k \in 1..Len(turn.handled) :
        LET h == turn.handled[k]
            tool_call == h.tool_call
        IN  tool_call.function.name \notin ToolNames =>
              /\ Len(attempted) >= h.seq + 2
              /\ attempted[h.seq + 2].event_type = "tool_result"
              /\ attempted[h.seq + 2].tool_call_id = tool_call.id
              /\ attempted[h.seq + 2].tool_result = JsonDumps(UnknownTool)
              /\ h.sent => frames[h.nframes + 1] =
                              [type |-> "tool_use",
                               tool |-> tool_call.function.name,
                               result |-> UnknownTool]
              /\ ~h.sent => ~connOpen
              /\ turn.status = "aborted" => ~connOpen
              /\ TurnReturned =>
                    (Len(turn.outcomes) > h.iteration \/ h.iteration = max_iterations)

\* A turn with a call of an unknown tool has gone on to another completion call
C10_Witness ==
    /\ TurnReturned
    /\ \E k \in 1..Len(turn.handled) :
          /\ turn.handled[k].tool_call.function.name \notin ToolNames
          /\ turn.handled[k].sent
          /\ Len(turn.outcomes) > turn.handled[k].iteration

---------------------------------------------------------------------------
(* C11 *)

IsPrefix(s, t) == Len(s) <= Len(t) /\ SubSeq(t, 1, Len(s)) = s

\* Lines 238-244: the tool_use frames of the tool calls of one response
RECURSIVE ToolFrames(_)
ToolFrames(tool_calls_list) ==
    IF tool_calls_list = <<>> THEN <<>>
    ELSE LET tool_call == Head(tool_calls_list)
             tool_name == tool_call.function.name
             tool_input == ToolInput(tool_call.function.arguments)
             tool_result == ToolResult(process_tool_call(tool_name, tool_input))
         IN  <<[type |-> "tool_use", tool |-> tool_name,
                result |-> JsonLoads(tool_result)]>>
             \o ToolFrames(Tail(tool_calls_list))

\* Lines 173-245: the frames one completion call gives rise to
OutcomeFrames(o) ==
    IF o.failed THEN <<ErrorFrame>>
    ELSE (IF Truthy(o.content) /\ TextIsStreamed(ResponseText(o.content))
          THEN <<[type |-> "text", content |-> ResponseText(o.content),
                  chunk |-> TRUE]>>
          ELSE <<>>)
         \o ToolFrames(o.tool_calls)

\* Lines 162-280: the frames of a turn as a function of what the provider
\* gave, call by call; the loop ends at the first call that raised
RECURSIVE ExpectedFrames(_)
ExpectedFrames(outcomes) ==
    IF outcomes = <<>> THEN <<[type |-> "done"]>>
    ELSE OutcomeFrames(Head(outcomes))
         \o (IF Head(outcomes).failed THEN <<[type |-> "done"]>>
             ELSE ExpectedFrames(Tail(outcomes)))

\* An event of the current turn whose insert failed
WriteFailedInTurn ==
    \E i \in (turn.eventStart + 1)..Len(attempted) :
        \A j \in 1..Len(eventsTable) :
            eventsTable[j].sequence_num # attempted[i].sequence_num

\* C11: the frames sent in a turn are a function of the provider's responses
\* alone, whatever the outcome of each event write: at every moment they are
\* a prefix of that function's value, and all of it once the turn has
\* returned; there are no more error frames than completion calls that
\* raised; and a turn is cut short only when the client has gone.
C11_FramesIgnoreWrites ==
    turn.n > 0 =>
        LET sent == TurnFrames
            expected == ExpectedFrames(turn.outcomes)
        IN  /\ IsPrefix(sent, expected)
            /\ TurnReturned => sent = expected
            /\ CountType(sent, "error")
                  <= Cardinality({i \in 1..Len(turn.outcomes) : turn.outcomes[i].failed})
            /\ turn.status = "aborted" => ~connOpen

\* A turn with a text frame and tool_use frames has returned although the
\* write of one of its events failed, and no error frame was sent
C11_Witness ==
    /\ TurnReturned
    /\ WriteFailedInTurn
    /\ CountType(TurnFrames, "text") > 0
    /\ CountType(TurnFrames, "tool_use") > 0
    /\ CountType(TurnFrames, "error") = 0

---------------------------------------------------------------------------
(* C12 *)

\* Line 358: the session_end event, when the last event built is one
LastEvent == attempted[Len(attempted)]

SessionEndBuilt ==
    attempted # <<>> /\ LastEvent.event_type = "session_end"

\* Lines 355-356 were taken: the session_end event carries the fallback
SummaryHasFailed == SessionEndBuilt /\ LastEvent.content = SummaryFailed

SessionEndStored ==
    \E j \in 1..Len(eventsTable) : eventsTable[j].event_type = "session_end"

\* C12 as stated: when the summary generation has failed, the session_end
\* event with the fallback is recorded and the session row is completed.
C12_FallbackThenCompleted ==
    (pc = "closed" /\ SummaryHasFailed) =>
        /\ SessionEndStored
        /\ \A i \in 1..Len(RowsOfSession) :
              /\ RowsOfSession[i].status = "completed"
              /\ RowsOfSession[i].summary = SummaryFailed

\* C12, amended: once handle_session_end has read the events, the summary
\* is the provider's or, when the provider failed, the fixed fallback; a
\* session_end event carrying it is built and its insert attempted as the
\* last event of the session, and the update of the session row is
\* attempted: when that update does not raise the row is completed with
\* that summary, and when it raises the row is left active.
C12_FallbackSummary ==
    (pc = "closed" /\ endStage \in {"updated", "update_raised"}) =>
        /\ SessionEndBuilt
        /\ Len(LastEvent.content) > 0
        /\ LastEvent.content[1] \in {"summary of", SummaryFailed[1]}
        /\ LastEvent.sequence_num = event_sequence
        /\ \A i \in 1..Len(RowsOfSession) :
              /\ endStage = "updated" =>
                    /\ RowsOfSession[i].status = "completed"
                    /\ RowsOfSession[i].summary = LastEvent.content
              /\ endStage = "update_raised" =>
                    /\ RowsOfSession[i].status = "active"
                    /\ RowsOfSession[i].summary = None

\* The summary failed after a turn that returned; the session_end event
\* with the fallback is stored and the row is completed with it
C12_Witness ==
    /\ pc = "closed"
    /\ SummaryHasFailed
    /\ SessionEndStored
    /\ turn.status = "returned"
    /\ RowsOfSession # <<>>
    /\ RowsOfSession[1].status = "completed"
    /\ RowsOfSession[1].summary = SummaryFailed

---------------------------------------------------------------------------
(* C13 *)

\* C13: every assistant turn of the history that carries tool calls c1..ck
\* is followed by exactly k tool-result turns, one per call, in the order of
\* the calls and each carrying the id of its call, also when the arguments
\* of a call are malformed or its executor fails.
C13_ToolTurnsComplete ==
    \A i \in 1..Len(messages) :
        "tool_calls" \in DOMAIN messages[i] =>
            LET k == Len(messages[i].tool_calls) IN
            /\ i + k <= Len(messages)
            /\ \A j \in 1..k :
                  /\ messages[i + j].role = "tool"
                  /\ messages[i + j].tool_call_id = messages[i].tool_calls[j].id
            /\ i + k + 1 <= Len(messages) => messages[i + k + 1].role # "tool"

---------------------------------------------------------------------------
(* C14 *)

\* The passes of the tool-call loop made in iteration n of the current turn
HandledOf(n) == SelectSeq(turn.handled, LAMBDA h : h.iteration = n)

\* Lines 209-245 for one pass h: the tool_call event is built first, then
\* the tool_result event carrying what the executor gave, then the frame
StepsInOrder(h) ==
    LET tool_name == h.tool_call.function.name
        tool_result == ToolResult(process_tool_call(tool_name,
                          ToolInput(h.tool_call.function.arguments)))
    IN  /\ Len(attempted) >= h.seq + 2
        /\ attempted[h.seq + 1].event_type = "tool_call"
        /\ attempted[h.seq + 1].tool_call_id = h.tool_call.id
        /\ attempted[h.seq + 1].sequence_num = h.seq + 1
        /\ attempted[h.seq + 2].event_type = "tool_result"
        /\ attempted[h.seq + 2].tool_call_id = h.tool_call.id
        /\ attempted[h.seq + 2].tool_result = tool_result
        /\ attempted[h.seq + 2].sequence_num = h.seq + 2
        /\ h.sent =>
              /\ Len(frames) > h.nframes
              /\ frames[h.nframes + 1] = [type |-> "tool_use", tool |-> tool_name,
                                          result |-> JsonLoads(tool_result)]

\* C14: in each iteration the tool calls are handled in the order the
\* provider returned them; for each call the tool_call event comes first,
\* then the executor's result in the tool_result event, then the tool_use
\* frame; and when the handling of the next call begins, the events and the
\* tool_use frame of the call before it are already out and nothing else
\* has happened in between.
C14_ToolCallsInOrder ==
    turn.n > 0 =>
        /\ \A n \in 1..Len(turn.outcomes) :
              LET hs == HandledOf(n)
                  tool_calls_list == turn.outcomes[n].tool_calls
              IN  /\ Len(hs) <= Len(tool_calls_list)
                  /\ \A i \in 1..Len(hs) : hs[i].tool_call = tool_calls_list[i]
                  /\ \A i \in 1..(Len(hs) - 1) :
                        /\ hs[i].sent
                        /\ hs[i + 1].seq = hs[i].seq + 2
                        /\ hs[i + 1].nframes = hs[i].nframes + 1
        /\ \A i \in 1..Len(turn.handled) : StepsInOrder(turn.handled[i])

\* Two iterations of two tool calls each were handled and the turn returned
C14_Witness ==
    /\ TurnReturned
    /\ Len(HandledOf(1)) = 2
    /\ Len(HandledOf(2)) = 2
    /\ HandledOf(1)[1].tool_call.id = "call_1"
    /\ HandledOf(1)[2].tool_call.id = "call_2"
    /\ CountType(TurnFrames, "tool_use") = 4

---------------------------------------------------------------------------
(* C15 *)

\* The texts of the assistant turns of the history that carry text
RECURSIVE AssistantTexts(_)
AssistantTexts(msgs) ==
    IF msgs = <<>> THEN <<>>
    ELSE (IF Head(msgs).role = "assistant" /\ "content" \in DOMAIN Head(msgs)
          THEN <<Head(msgs).content>> ELSE <<>>)
         \o AssistantTexts(Tail(msgs))

\* The texts of the assistant_message events built
RECURSIVE AssistantEventTexts(_)
AssistantEventTexts(events) ==
    IF events = <<>> THEN <<>>
    ELSE (IF Head(events).event_type = "assistant_message"
          THEN <<Head(events).content>> ELSE <<>>)
         \o AssistantEventTexts(Tail(events))

\* C15: while no send has failed, the assistant text turns of the history
\* and the assistant_message events built for the session are the same
\* texts in the same order, and there are as many text frames: every
\* non-empty text of the provider, whatever its wording, gives one of each.
C15_TextTurnsMatchEvents ==
    turn.status # "aborted" =>
        /\ AssistantTexts(messages) = AssistantEventTexts(attempted)
        /\ CountType(frames, "text") = Len(AssistantTexts(messages))

---------------------------------------------------------------------------
(* C16 *)

\* Lines 226-230: what process_tool_call gave in the pass h
OutcomeOf(h) ==
    process_tool_call(h.tool_call.function.name,
                      ToolInput(h.tool_call.function.arguments))

\* Lines 229-230: the payload standing for an exception
ErrorPayload(outcome) == Dict({<<"error", outcome.error>>})

\* C16: when process_tool_call raises for a tool call, the tool_result event
\* of that call carries the error payload and so does its tool_use frame,
\* which is the one frame the call gives rise to; no error frame is sent
\* for it; every tool call of the iteration is still handled once the
\* iteration is over; and a turn that returns has gone on to the next
\* completion call when the iteration was not the last one allowed.
C16_ExecutorFailure ==
    \A i \in 1..Len(turn.handled) :
        LET h == turn.handled[i]
            n == h.iteration
            outcome == OutcomeOf(h)
        IN  outcome.raised =>
              /\ attempted[h.seq + 2].event_type = "tool_result"
              /\ attempted[h.seq + 2].tool_call_id = h.tool_call.id
              /\ attempted[h.seq + 2].tool_result = JsonDumps(ErrorPayload(outcome))
              /\ h.sent =>
                    /\ frames[h.nframes + 1].type = "tool_use"
                    /\ frames[h.nframes + 1].result = ErrorPayload(outcome)
              /\ CountType(TurnFrames, "error")
                    <= Cardinality({k \in 1..Len(turn.outcomes) : turn.outcomes[k].failed})
              /\ (TurnReturned \/ Len(turn.outcomes) > n) =>
                    Len(HandledOf(n)) = Len(turn.outcomes[n].tool_calls)
              /\ (TurnReturned /\ n < max_iterations) => Len(turn.outcomes) > n

\* The first of two tool calls raised in iteration 1; the second was handled
\* and the loop went on to a second completion call, without an error frame
C16_Witness ==
    /\ TurnReturned
    /\ Len(turn.outcomes) >= 2
    /\ Len(HandledOf(1)) = 2
    /\ OutcomeOf(HandledOf(1)[1]).raised
    /\ ~OutcomeOf(HandledOf(1)[2]).raised
    /\ OutcomeOf(HandledOf(1)[2]).ran
    /\ CountType(TurnFrames, "error") = 0
    /\ CountType(TurnFrames, "tool_use") >= 2

---------------------------------------------------------------------------
(* C17 *)

\* The task of connection u has something to go on with: it was accepted, a
\* frame or the close of its connection has come, or its sleep is over
HasWork(u) ==
    \/ task[u].pc = "accepted"
    \/ task[u].pc = "receive" /\ (task[u].pending \/ task[u].gone)
    \/ task[u].pc = "tool_asleep"

\* The event loop can run the task of connection u now
CanStep(u) == ENABLED (Run(u) \/ ReceiveJson(u) \/ Resume(u))

\* C17: while the task of one session waits for the answer to a call to the
\* completion service or to the datastore, the task of any other session
\* that has something to go on with can take its step.
C17_OthersNotBlocked ==
    \A t \in Connections : \A u \in Connections \ {t} :
        (task[t].waiting /\ HasWork(u)) => CanStep(u)

---------------------------------------------------------------------------
(* C18 *)

\* The part of a request after what line 167 puts before the history
RequestHistory(request, history) ==
    SubSeq(request, Len(request) - Len(history) + 1, Len(request))

\* C18: no step removes or changes a turn of the history (turns are only
\* appended), and the request of every completion call carries the whole
\* history at that moment, turn by turn in order, after at most the one
\* prompt turn put before it; so every turn of an earlier user turn, the
\* user turn of a user turn whose completion call failed included, is in its
\* place in every later request of the connection.
C18_HistoryAppendOnly ==
    [][/\ IsPrefix(messages, messages')
       /\ calls' # calls =>
             /\ Len(lastRequest') \in {Len(messages'), Len(messages') + 1}
             /\ RequestHistory(lastRequest', messages') = messages']_vars

\* The first request of a second user turn, after a first user turn whose
\* completion call failed: it carries both user turns
C18_Witness ==
    /\ turn.n = 2
    /\ Len(turn.outcomes) = 1
    /\ turn.frameStart = 2
    /\ frames[1].type = "error"
    /\ Len(messages) = 2
    /\ Len(lastRequest) = 3
    /\ lastRequest[2] = messages[1]
    /\ lastRequest[3] = messages[2]
    /\ lastRequest[2].role = "user"

---------------------------------------------------------------------------
(* C19 *)

\* Lines 268-272: the tool-result turns of the history
ToolTurns == SelectSeq(messages, LAMBDA m : m.role = "tool")

\* The passes of the tool-call loop in which an executor was run
HandledRuns == {i \in 1..Len(turn.handled) : OutcomeOf(turn.handled[i]).ran}

\* C19: when an iteration of the first user turn is over, the executors have
\* been run once for each tool call handled so far that names a tool and
\* has the arguments for it, and no more; and the tool-result turns of the
\* history are, call by call, the values recorded in the tool_result events.
C19_OneExecutorRun ==
    (turn.n = 1 /\ pc \in {"loop", "done", "recv"}) =>
        /\ Len(toolRuns) = Cardinality(HandledRuns)
        /\ Len(ToolTurns) = Len(turn.handled)
        /\ \A i \in 1..Len(ToolTurns) :
              /\ ToolTurns[i].tool_call_id = turn.handled[i].tool_call.id
              /\ ToolTurns[i].content = attempted[turn.handled[i].seq + 2].tool_result

---------------------------------------------------------------------------
(* C20 *)

\* C20: after every step, the first event built for the connection is the
\* session_start event, with sequence_num 1, and no later event is one; a
\* session_end event is the last event built; and once the session_end
\* event is built, no step builds another event or makes a completion call.
C20_StartFirstEndLast ==
    [][/\ attempted' # <<>> =>
             /\ attempted'[1].event_type = "session_start"
             /\ attempted'[1].sequence_num = 1
       /\ \A i \in 2..Len(attempted') : attempted'[i].event_type # "session_start"
       /\ \A i \in 1..(Len(attempted') - 1) : attempted'[i].event_type # "session_end"
       /\ SessionEndBuilt =>
             /\ Len(attempted') = Len(attempted)
             /\ calls' = calls
             /\ lastRequest' = lastRequest]_vars

\* A connection with a user turn that made completion calls and handled
\* tool calls has ended: session_start is first and session_end last
C20_Witness ==
    /\ pc = "closed"
    /\ SessionEndBuilt
    /\ attempted[1].event_type = "session_start"
    /\ calls >= 2
    /\ CountEvents(attempted, "user_message") >= 1
    /\ CountEvents(attempted, "tool_result") >= 1
    /\ CountEvents(attempted, "assistant_message") >= 1
    /\ CountEvents(attempted, "session_end") = 1

====
